---- MODULE Spec2Model ----
(***************************************************************************)
(* A model of oscrypto/_osx/tls.py: the client-side TLS socket built on    *)
(* Secure Transport.  The native engine, the raw transport and the peer    *)
(* are the environment; TLSSocket's fields, the two module-level           *)
(* registries and the position inside each looping method are the state.   *)
(***************************************************************************)
EXTENDS Integers, Sequences, FiniteSets, TLC

\* ------------------------------------------------------------------ bounds
MaxStream == 3
MaxRead == 2
MaxWrite == 2
MaxFaults == 1

\* ---------------------------------------------------------------- constants
DefaultChunk == 8192

Byte == {"a", "n"}
Markers == {<<"n">>, <<"a", "n">>}
NULL == "NULL"
CTX == "CTX"
SOCK == "SOCK"
CID == "cid"

noErr == "noErr"
errSSLWouldBlock == "errSSLWouldBlock"
errSSLClosedGraceful == "errSSLClosedGraceful"
errSSLClosedNoNotify == "errSSLClosedNoNotify"
errSSLClosedAbort == "errSSLClosedAbort"
errSSLInternal == "errSSLInternal"

VARIABLES
    session_context,   \* self._session_context
    socket,            \* self._socket
    decrypted_bytes,   \* self._decrypted_bytes
    local_closed,      \* self._local_closed
    connection_refs,   \* _connection_refs (weak values)
    socket_refs,       \* _socket_refs
    engine,            \* the native context: signals and releases it has seen
    transport,         \* the raw socket
    incoming,          \* plaintext the engine can deliver next, in order
    peer_total,        \* bytes the peer has produced so far
    faults,            \* engine failures injected so far
    alive,             \* the TLSSocket object has not been finalized
    frame,             \* position inside read_until / read_exactly / write
    ret,               \* outcome of the last completed call
    close_called,      \* close() has been called on the object
    rt,                \* round-trip bookkeeping: the payload under test
    session,           \* self._session: protocols, validation mode, trust roots
    osx_legacy,        \* osx_version_info < (10, 8)
    peer,              \* the server: is its chain trusted, by whom
    hs,                \* position and locals of _handshake
    done_handshake,    \* self._done_handshake
    protocol           \* self._protocol

vars == <<session_context, socket, decrypted_bytes, local_closed, connection_refs,
          socket_refs, engine, transport, incoming, peer_total, faults, alive,
          frame, ret, close_called, rt, session, osx_legacy, peer, hs,
          done_handshake, protocol>>

\* what the buffered-channel methods never touch
hsVars == <<session, osx_legacy, peer, hs, done_handshake, protocol>>

\* what _handshake never touches
chanVars == <<decrypted_bytes, local_closed, incoming, peer_total, alive, frame,
              ret, close_called, rt>>

\* ------------------------------------------------------------ sequence help
Min(a, b) == IF a < b THEN a ELSE b

Take(s, k) == SubSeq(s, 1, Min(k, Len(s)))

Drop(s, k) == SubSeq(s, Min(k, Len(s)) + 1, Len(s))

IsPrefix(p, s) == Len(p) <= Len(s) /\ SubSeq(s, 1, Len(p)) = p

EndsWith(s, m) == Len(m) <= Len(s) /\ SubSeq(s, Len(s) - Len(m) + 1, Len(s)) = m

SeqsUpTo(k) == UNION {[1..i -> Byte] : i \in 0..k}

\* bytes.find(marker): the 0-based index of the first occurrence, or -1
find(chunk, marker) ==
    LET hits == {i \in 0..(Len(chunk) - Len(marker)) :
                    SubSeq(chunk, i + 1, i + Len(marker)) = marker}
    IN IF hits = {} THEN -1 ELSE CHOOSE i \in hits : \A j \in hits : i <= j

\* ----------------------------------------------------------- the environment
NonFatal == {noErr, errSSLWouldBlock, errSSLClosedGraceful}

\* What Security.SSLRead can report for a request of to_read bytes: a full
\* read, a short read with would-block or graceful close, or a fatal status.
SSLRead(to_read) ==
    LET avail == IF socket = NULL THEN 0 ELSE Min(to_read, Len(incoming))
    IN {[k |-> k, status |-> IF k = to_read THEN noErr ELSE s] :
            k \in 0..avail, s \in {errSSLWouldBlock, errSSLClosedGraceful}}
       \cup {[k |-> 0, status |-> errSSLInternal]}

\* What Security.SSLWrite can report for data_len bytes
SSLWrite(data_len) ==
    {[k |-> k, status |-> s] : k \in 0..data_len, s \in {noErr, errSSLWouldBlock}}
    \cup {[k |-> 0, status |-> errSSLClosedAbort]}

NoCall == [k |-> 0, status |-> noErr]

\* --------------------------------------------------------- buffered channel
\* select.select([self._socket], [], [], 0)
socket_readable == Len(incoming) > 0

select_read(buf) ==
    IF Len(buf) > 0 THEN TRUE ELSE socket_readable

\* a closed-connection error that ignores which side closed
raise_closed_ignores_side == "closed_remote"

raise_closed ==
    IF local_closed THEN "closed_local" ELSE "closed_remote"

Result(kind, out, buf, took, called) ==
    [kind |-> kind, out |-> out, buf |-> buf, took |-> took, engine |-> called]

\* whether read(max_length) reaches Security.SSLRead
read_calls_engine(max_length) ==
    /\ session_context # NULL
    /\ Len(decrypted_bytes) < max_length
    /\ ~(Len(decrypted_bytes) > 0 /\ ~select_read(decrypted_bytes))

\* read() that gives up its buffered bytes when the engine reports a fatal status
read_error_drops_buffer(max_length, e) ==
    IF session_context = NULL THEN
        IF decrypted_bytes # <<>>
        THEN Result("return", decrypted_bytes, <<>>, 0, FALSE)
        ELSE Result(raise_closed, <<>>, decrypted_bytes, 0, FALSE)
    ELSE IF Len(decrypted_bytes) >= max_length THEN
        Result("return", Take(decrypted_bytes, max_length),
               Drop(decrypted_bytes, max_length), 0, FALSE)
    ELSE IF Len(decrypted_bytes) > 0 /\ ~select_read(decrypted_bytes) THEN
        Result("return", decrypted_bytes, <<>>, 0, FALSE)
    ELSE IF e.status \notin NonFatal THEN
        Result("tls_error", <<>>, <<>>, 0, TRUE)
    ELSE
        LET output == decrypted_bytes \o Take(incoming, e.k)
        IN Result("return", Take(output, max_length), Drop(output, max_length),
                  e.k, TRUE)

read(max_length, e) ==
    IF session_context = NULL THEN
        IF decrypted_bytes # <<>>
        THEN Result("return", decrypted_bytes, <<>>, 0, FALSE)
        ELSE Result(raise_closed, <<>>, decrypted_bytes, 0, FALSE)
    ELSE IF Len(decrypted_bytes) >= max_length THEN
        Result("return", Take(decrypted_bytes, max_length),
               Drop(decrypted_bytes, max_length), 0, FALSE)
    ELSE IF Len(decrypted_bytes) > 0 /\ ~select_read(decrypted_bytes) THEN
        Result("return", decrypted_bytes, <<>>, 0, FALSE)
    ELSE IF e.status \notin NonFatal THEN
        Result("tls_error", <<>>, decrypted_bytes, 0, TRUE)
    ELSE
        LET output == decrypted_bytes \o Take(incoming, e.k)
        IN Result("return", Take(output, max_length), Drop(output, max_length),
                  e.k, TRUE)

ReadInputs(max_length) ==
    IF read_calls_engine(max_length)
    THEN SSLRead(max_length - Len(decrypted_bytes))
    ELSE {NoCall}

\* The peer has sent its last bytes and closed the connection gracefully:
\* Security.SSLRead hands over what is left, and once a request cannot be
\* filled it reports errSSLClosedGraceful with what it had, zero bytes in the
\* end, on every call.
SSLReadAfterCloseNotify(to_read) ==
    LET k == Min(to_read, Len(incoming))
    IN {[k |-> k, status |-> IF k = to_read THEN noErr ELSE errSSLClosedGraceful]}

ReadInputsAfterCloseNotify(max_length) ==
    IF read_calls_engine(max_length)
    THEN SSLReadAfterCloseNotify(max_length - Len(decrypted_bytes))
    ELSE {NoCall}

\* what the engine can answer to read(max_length)
EngineReadInputs(after_close_notify, max_length) ==
    IF after_close_notify
    THEN ReadInputsAfterCloseNotify(max_length)
    ELSE ReadInputs(max_length)

\* _os_buffered_size(): SSLGetBufferedReadSize, which fails on a null context
os_buffered_size ==
    IF session_context = NULL THEN {-1, 0} ELSE 0..Len(incoming)

\* the loop body with the match offset taken inside the last chunk only
until_iter_chunk_offset(output, chunk, buf, marker) ==
    LET out == output \o chunk
        match == find(chunk, marker)
        end == match + Len(marker)
    IN IF match # -1
       THEN [found |-> TRUE, result |-> Take(out, end), output |-> out,
             buf |-> Drop(out, end) \o buf, past |-> Drop(out, end)]
       ELSE [found |-> FALSE, result |-> <<>>, output |-> out, buf |-> buf,
             past |-> <<>>]

\* the bytes of line endings
CR == "\r"

LF == "\n"

\* _line_regex (line 83), as the marker value read_line passes on
line_regex == <<"(\\r\\n|\\r|\\n)">>

\* _line_regex.search(chunk): match.end() of the leftmost match, -1 for None.
\* At a CR the first alternative needs the LF to be in the chunk as well.
line_regex_search(chunk) ==
    LET hits == {i \in 1..Len(chunk) : chunk[i] \in {CR, LF}}
    IN IF hits = {} THEN -1
       ELSE LET i == CHOOSE h \in hits : \A j \in hits : h <= j
            IN IF chunk[i] = CR /\ i < Len(chunk) /\ chunk[i + 1] = LF
               THEN i + 1 ELSE i

\* one pass of read_until's loop body after the chunk has been obtained
until_iter(output, chunk, buf, marker) ==
    LET out == output \o chunk
        is_regex == marker = line_regex
        match == IF is_regex THEN line_regex_search(chunk) ELSE find(chunk, marker)
        offset == Len(out) - Len(chunk)
        end == IF is_regex THEN offset + match ELSE offset + match + Len(marker)
    IN IF match # -1
       THEN [found |-> TRUE, result |-> Take(out, end), output |-> out,
             buf |-> Drop(out, end) \o buf, past |-> Drop(out, end)]
       ELSE [found |-> FALSE, result |-> <<>>, output |-> out, buf |-> buf,
             past |-> <<>>]

\* shutdown(): f is how the engine answers SSLClose and the context release
shutdown_of(ctx_field, f) ==
    IF ctx_field = NULL THEN
        [raised |-> FALSE, ctx |-> ctx_field, lc |-> local_closed,
         eng |-> engine, tr |-> transport]
    ELSE IF f = "close_fails" THEN
        [raised |-> TRUE, ctx |-> ctx_field, lc |-> local_closed,
         eng |-> [engine EXCEPT !.close_signals = @ + 1], tr |-> transport]
    ELSE IF f = "release_fails" THEN
        [raised |-> TRUE, ctx |-> ctx_field, lc |-> local_closed,
         eng |-> [engine EXCEPT !.close_signals = @ + 1, !.releases = @ + 1],
         tr |-> transport]
    ELSE
        [raised |-> (socket = NULL), ctx |-> NULL, lc |-> TRUE,
         eng |-> [engine EXCEPT !.close_signals = @ + 1, !.releases = @ + 1],
         tr |-> IF socket = NULL THEN transport
                ELSE [transport EXCEPT !.shutdowns = @ + 1]]

shutdown(f) == shutdown_of(session_context, f)

\* close(): shutdown(), then the finally block
close_of(ctx_field, f) ==
    LET s == shutdown_of(ctx_field, f)
    IN [raised |-> s.raised, ctx |-> s.ctx, lc |-> s.lc, eng |-> s.eng,
        tr |-> IF socket # NULL THEN [s.tr EXCEPT !.closes = @ + 1] ELSE s.tr,
        sock |-> NULL, refs |-> socket_refs \ {CID}]

close(f) == close_of(session_context, f)

EngineAnswers ==
    {"ok"} \cup (IF faults < MaxFaults /\ session_context # NULL
                 THEN {"close_fails"} \cup (IF osx_legacy THEN {"release_fails"} ELSE {})
                 ELSE {})

\* ------------------------------------------------------------- bookkeeping
Snapshot ==
    [ctx |-> session_context, socket |-> socket, socket_refs |-> socket_refs,
     local_closed |-> local_closed, engine |-> engine, transport |-> transport,
     buf |-> decrypted_bytes, readable |-> socket_readable,
     close_called |-> close_called]

NoCallYet ==
    [n |-> 0, marker |-> <<>>, pre |-> <<>>, pushed_before |-> <<>>]

Idle ==
    [op |-> "idle", call |-> NoCallYet, output |-> <<>>, data |-> <<>>,
     pulled |-> <<>>]

\* the record of a completed call: what it was given, the state it started
\* in, what it returned or raised, and what it took from the engine
Outcome(op, kind, data, called, call, pulled, past) ==
    [op |-> op, kind |-> kind, data |-> data, called |-> called, n |-> call.n,
     marker |-> call.marker, pre |-> call.pre,
     pushed_before |-> call.pushed_before, pulled |-> pulled, past |-> past]

\* bytes the last read_until put back and no read call has taken yet
pushed ==
    IF ret.op = "read_until" /\ ret.kind = "return" THEN ret.past ELSE <<>>

Call(n, marker) ==
    [n |-> n, marker |-> marker, pre |-> Snapshot, pushed_before |-> pushed]

Callable == alive /\ frame.op = "idle"

Disarmed == [phase |-> "none", p |-> <<>>]

\* ------------------------------------------------------------------ actions
\* the peer produces one more byte (room is kept for the echo of a write in
\* progress, so that MaxStream bounds the whole stream)
PeerSend(b) ==
    /\ peer_total + Len(frame.data) < MaxStream
    /\ socket # NULL
    /\ incoming' = Append(incoming, b)
    /\ peer_total' = peer_total + 1
    /\ rt' = Disarmed
    /\ UNCHANGED <<close_called, session_context, socket, decrypted_bytes,
                   local_closed, connection_refs, socket_refs, engine, transport,
                   faults, alive, frame, ret>>
    /\ UNCHANGED hsVars

Read(max_length) ==
    /\ Callable
    /\ \E e \in ReadInputs(max_length) :
         LET r == read(max_length, e)
         IN /\ decrypted_bytes' = r.buf
            /\ incoming' = Drop(incoming, r.took)
            /\ ret' = Outcome("read", r.kind, r.out, r.engine,
                              Call(max_length, <<>>), Take(incoming, r.took), <<>>)
    /\ rt' = Disarmed
    /\ UNCHANGED <<close_called, session_context, socket, local_closed,
                   connection_refs, socket_refs, engine, transport, peer_total,
                   faults, alive, frame>>
    /\ UNCHANGED hsVars

ReadUntilStart(marker) ==
    /\ Callable
    /\ frame' = [Idle EXCEPT !.op = "read_until", !.call = Call(0, marker)]
    /\ rt' = Disarmed
    /\ UNCHANGED <<close_called, session_context, socket, decrypted_bytes,
                   local_closed, connection_refs, socket_refs, engine, transport,
                   incoming, peer_total, faults, alive, ret>>
    /\ UNCHANGED hsVars

\* read_until leaves by an exception of the given kind
ReadUntilRaise(kind, called) ==
    /\ frame' = Idle
    /\ ret' = Outcome("read_until", kind, <<>>, called, frame.call, frame.pulled,
                      <<>>)
    /\ UNCHANGED <<decrypted_bytes, incoming>>

\* the loop body from "output += chunk" on
ReadUntilPass(chunk, buf, called, took) ==
    LET it == until_iter(frame.output, chunk, buf, frame.call.marker)
        pulled == frame.pulled \o Take(incoming, took)
    IN /\ decrypted_bytes' = it.buf
       /\ incoming' = Drop(incoming, took)
       /\ IF it.found
          THEN /\ frame' = Idle
               /\ ret' = Outcome("read_until", "return", it.result, called,
                                 frame.call, pulled, it.past)
          ELSE /\ frame' = [frame EXCEPT !.output = it.output, !.pulled = pulled]
               /\ UNCHANGED ret

\* one pass of read_until's loop (lines 907-928), before or after the peer's
\* close_notify
ReadUntilLoop(after_close_notify) ==
    /\ alive
    /\ frame.op = "read_until"
    /\ IF Len(decrypted_bytes) > 0
       THEN ReadUntilPass(decrypted_bytes, <<>>, FALSE, 0)
       ELSE \E size \in os_buffered_size :
              IF size < 0
              THEN ReadUntilRaise("os_error", FALSE)
              ELSE LET to_read == IF size = 0 THEN DefaultChunk ELSE size
                   IN \E e \in EngineReadInputs(after_close_notify, to_read) :
                        LET r == read(to_read, e)
                        IN IF r.kind # "return"
                           THEN ReadUntilRaise(r.kind, r.engine)
                           ELSE ReadUntilPass(r.out, r.buf, r.engine, r.took)
    /\ UNCHANGED <<close_called, session_context, socket, local_closed,
                   connection_refs, socket_refs, engine, transport, peer_total,
                   faults, alive, rt>>
    /\ UNCHANGED hsVars

ReadUntilStep == ReadUntilLoop(FALSE)

ReadExactlyStart(num_bytes) ==
    /\ Callable
    /\ frame' = [Idle EXCEPT !.op = "read_exactly", !.call = Call(num_bytes, <<>>)]
    /\ rt' = IF /\ rt.phase = "write"
                /\ ret.op = "write"
                /\ ret.kind = "return"
                /\ Len(rt.p) = num_bytes
             THEN [rt EXCEPT !.phase = "read"] ELSE Disarmed
    /\ UNCHANGED <<close_called, session_context, socket, decrypted_bytes,
                   local_closed, connection_refs, socket_refs, engine, transport,
                   incoming, peer_total, faults, alive, ret>>
    /\ UNCHANGED hsVars

\* the accumulation with each new chunk put in front
exactly_iter_prepends(output, chunk, num_bytes) ==
    LET out == chunk \o output
        remaining == num_bytes - Len(out)
    IN [again |-> remaining > 0, output |-> out]

\* output after one more read() result has been appended
exactly_iter(output, chunk, num_bytes) ==
    LET out == output \o chunk
        remaining == num_bytes - Len(out)
    IN [again |-> remaining > 0, output |-> out]

\* one pass of read_exactly's loop (lines 976-978)
ReadExactlyLoop(after_close_notify) ==
    /\ alive
    /\ frame.op = "read_exactly"
    /\ LET remaining == frame.call.n - Len(frame.output)
       IN \E e \in EngineReadInputs(after_close_notify, remaining) :
            LET r == read(remaining, e)
                it == exactly_iter(frame.output, r.out, frame.call.n)
                pulled == frame.pulled \o Take(incoming, r.took)
            IN /\ decrypted_bytes' = r.buf
               /\ incoming' = Drop(incoming, r.took)
               /\ IF r.kind = "return" /\ it.again
                  THEN /\ frame' = [frame EXCEPT !.output = it.output,
                                                 !.pulled = pulled]
                       /\ UNCHANGED <<ret, rt>>
                  ELSE /\ frame' = Idle
                       /\ rt' = IF r.kind = "return" /\ rt.phase = "read"
                                THEN [rt EXCEPT !.phase = "done"] ELSE Disarmed
                       /\ ret' = Outcome("read_exactly", r.kind,
                                         IF r.kind = "return" THEN it.output ELSE <<>>,
                                         r.engine, frame.call, pulled, <<>>)
    /\ UNCHANGED <<close_called, session_context, socket, local_closed,
                   connection_refs, socket_refs, engine, transport, peer_total,
                   faults, alive>>
    /\ UNCHANGED hsVars

ReadExactlyStep == ReadExactlyLoop(FALSE)

WriteStart(data) ==
    /\ Callable
    /\ peer_total + Len(data) <= MaxStream
    /\ IF session_context = NULL
       THEN /\ ret' = Outcome("write", raise_closed, <<>>, FALSE,
                              Call(Len(data), <<>>), <<>>, <<>>)
            /\ rt' = Disarmed
            /\ UNCHANGED frame
       ELSE /\ frame' = [Idle EXCEPT !.op = "write", !.data = data,
                                     !.call = Call(Len(data), <<>>)]
            /\ rt' = IF decrypted_bytes = <<>> /\ incoming = <<>>
                     THEN [phase |-> "write", p |-> data] ELSE Disarmed
            /\ UNCHANGED ret
    /\ UNCHANGED <<close_called, session_context, socket, decrypted_bytes,
                   local_closed, connection_refs, socket_refs, engine, transport,
                   incoming, peer_total, faults, alive>>
    /\ UNCHANGED hsVars

\* data left to hand to the engine after it took bytes_written of it
write_rest(data, bytes_written) == Drop(data, bytes_written)

WriteStep ==
    /\ alive
    /\ frame.op = "write"
    /\ \E w \in IF socket = NULL THEN {[k |-> 0, status |-> errSSLClosedAbort]}
                ELSE SSLWrite(Len(frame.data)) :
         \* the peer echoes whatever the engine accepted
         /\ incoming' = incoming \o Take(frame.data, w.k)
         /\ peer_total' = peer_total + w.k
         /\ IF w.status # noErr
            THEN /\ frame' = Idle
                 /\ ret' = Outcome("write", "tls_error", <<>>, TRUE, frame.call,
                                   <<>>, <<>>)
            ELSE LET rest == write_rest(frame.data, w.k)
                 IN IF Len(rest) > 0
                    THEN /\ frame' = [frame EXCEPT !.data = rest]
                         /\ UNCHANGED ret
                    ELSE /\ frame' = Idle
                         /\ ret' = Outcome("write", "return", <<>>, TRUE,
                                           frame.call, <<>>, <<>>)
    /\ UNCHANGED <<close_called, session_context, socket, decrypted_bytes,
                   local_closed, connection_refs, socket_refs, engine, transport,
                   faults, alive, rt>>
    /\ UNCHANGED hsVars

Shutdown ==
    /\ Callable
    /\ \E f \in EngineAnswers :
         LET s == shutdown(f)
         IN /\ session_context' = s.ctx
            /\ local_closed' = s.lc
            /\ engine' = s.eng
            /\ transport' = s.tr
            /\ faults' = IF f = "ok" THEN faults ELSE faults + 1
            /\ ret' = Outcome("shutdown", IF s.raised THEN "raise" ELSE "return",
                              <<>>, session_context # NULL, Call(0, <<>>), <<>>,
                              <<>>)
    /\ UNCHANGED <<close_called, socket, decrypted_bytes, connection_refs,
                   socket_refs, incoming, peer_total, alive, frame, rt>>
    /\ UNCHANGED hsVars

CloseCall(op) ==
    \E f \in EngineAnswers :
         LET c == close(f)
         IN /\ session_context' = c.ctx
            /\ local_closed' = c.lc
            /\ engine' = c.eng
            /\ transport' = c.tr
            /\ socket' = c.sock
            /\ socket_refs' = c.refs
            /\ faults' = IF f = "ok" THEN faults ELSE faults + 1
            /\ close_called' = TRUE
            /\ ret' = Outcome(op, IF c.raised THEN "raise" ELSE "return",
                              <<>>, session_context # NULL, Call(0, <<>>), <<>>,
                              <<>>)

Close ==
    /\ Callable
    /\ CloseCall("close")
    /\ UNCHANGED <<decrypted_bytes, connection_refs, incoming, peer_total, alive,
                   frame, rt>>
    /\ UNCHANGED hsVars

\* __del__: close() once more as the object is collected; its weak registry
\* entry goes with it
Del ==
    /\ Callable
    /\ CloseCall("del")
    /\ alive' = FALSE
    /\ connection_refs' = connection_refs \ {CID}
    /\ UNCHANGED <<decrypted_bytes, incoming, peer_total, frame, rt>>
    /\ UNCHANGED hsVars

\* ---------------------------------------------------------------- handshake
Protocols == {"SSLv3", "TLSv1", "TLSv1.1", "TLSv1.2"}

DefaultProtocols == {"TLSv1", "TLSv1.1", "TLSv1.2"}

LegacyProtocols == {"SSLv2", "SSLv3", "TLSv1"}

\* _PROTOCOL_STRING_CONST_MAP, with the SSLProtocol values of SecurityConst
PROTOCOL_STRING_CONST_MAP ==
    ("SSLv2" :> 1) @@ ("SSLv3" :> 2) @@ ("TLSv1" :> 4) @@ ("TLSv1.1" :> 7)
    @@ ("TLSv1.2" :> 8)

errSSLServerAuthCompleted == "errSSLServerAuthCompleted"
errSSLXCertChainInvalid == "errSSLXCertChainInvalid"
errSSLPeerHandshakeFail == "errSSLPeerHandshakeFail"

TrustProceed == {"kSecTrustResultProceed", "kSecTrustResultUnspecified"}

TrustFailure == {"kSecTrustResultDeny", "kSecTrustResultRecoverableTrustFailure"}

NoEngine ==
    [allocated |-> FALSE, close_signals |-> 0, releases |-> 0,
     break_on_auth |-> FALSE, cert_verify |-> TRUE, enabled |-> {}]

NotStarted ==
    [pc |-> "new", ctx |-> NULL, result |-> "none", exc |-> "none",
     paused |-> FALSE, trust |-> "none", configured |-> FALSE]

disable_auto_validation ==
    session.manual_validation \/ session.extra_trust_roots

explicit_validation ==
    (~session.manual_validation) /\ session.extra_trust_roots

\* the versions the engine will negotiate once lines 526-554 have run
protocols_enabled ==
    IF osx_legacy
    THEN {p \in LegacyProtocols : p \in session.protocols}
    ELSE LET protocol_consts == {PROTOCOL_STRING_CONST_MAP[p] : p \in session.protocols}
             min_protocol == CHOOSE c \in protocol_consts : \A d \in protocol_consts : c <= d
             max_protocol == CHOOSE c \in protocol_consts : \A d \in protocol_consts : c >= d
         IN {p \in Protocols : /\ min_protocol <= PROTOCOL_STRING_CONST_MAP[p]
                               /\ PROTOCOL_STRING_CONST_MAP[p] <= max_protocol}

\* the validation options lines 537-539 and 556-562 leave on the context
validation_options ==
    IF osx_legacy
    THEN [cert_verify |-> ~disable_auto_validation, break_on_auth |-> FALSE]
    ELSE [cert_verify |-> TRUE, break_on_auth |-> disable_auto_validation]

\* What Security.SSLHandshake can answer.  An engine told to break on server
\* authentication pauses once before it can finish; one that validates the
\* chain itself refuses an untrusted chain; one that does neither finishes.
SSLHandshake ==
    LET always == {errSSLWouldBlock, errSSLPeerHandshakeFail, errSSLClosedAbort}
        validates == engine.cert_verify /\ ~engine.break_on_auth
    IN IF engine.break_on_auth /\ ~hs.paused
       THEN always \cup {errSSLServerAuthCompleted}
       ELSE IF validates /\ ~peer.trusted
       THEN always \cup {errSSLXCertChainInvalid}
       ELSE IF engine.enabled = {}
       THEN always
       ELSE always \cup {noErr}

\* SecTrustEvaluate once the extra trust roots are the anchors
SecTrustEvaluate ==
    IF peer.anchored THEN TrustProceed ELSE TrustFailure

\* leave the try block with an exception: OSError and its subclasses
\* (TLSError, socket.error) reach the except clause, anything else does not
Raise(kind) ==
    [hs EXCEPT !.exc = kind, !.pc = IF kind = "OSError" THEN "except" ELSE "raised"]

HsFrame ==
    UNCHANGED <<chanVars, session, osx_legacy, peer>>

CreateContext ==
    /\ hs.pc = "new"
    /\ \E o \in {"ok", "iofuncs_fails"} \cup (IF osx_legacy THEN {"new_fails"} ELSE {}) :
         IF o = "new_fails"
         THEN /\ hs' = Raise("OSError")
              /\ UNCHANGED engine
         ELSE /\ engine' = [engine EXCEPT !.allocated = TRUE]
              /\ hs' = IF o = "ok" THEN [hs EXCEPT !.ctx = CTX, !.pc = "register"]
                       ELSE [Raise("OSError") EXCEPT !.ctx = CTX]
    /\ UNCHANGED <<session_context, socket, connection_refs, socket_refs, transport,
                   faults, done_handshake, protocol>>
    /\ HsFrame

Register ==
    /\ hs.pc = "register"
    /\ connection_refs' = connection_refs \cup {CID}
    /\ socket_refs' = socket_refs \cup {CID}
    /\ \E ok \in BOOLEAN :
         hs' = IF ok THEN [hs EXCEPT !.pc = "protocols"] ELSE Raise("OSError")
    /\ UNCHANGED <<session_context, socket, engine, transport, faults,
                   done_handshake, protocol>>
    /\ HsFrame

ConfigureProtocols ==
    /\ hs.pc = "protocols"
    /\ \E ok \in BOOLEAN :
         IF ~osx_legacy /\ session.protocols = {}
         THEN \* min() of an empty list on line 543 is a ValueError
              /\ hs' = Raise("Other")
              /\ UNCHANGED engine
         ELSE IF ok
         THEN /\ engine' = [engine EXCEPT
                              !.enabled = protocols_enabled,
                              !.cert_verify = validation_options.cert_verify,
                              !.break_on_auth = validation_options.break_on_auth]
              /\ hs' = [hs EXCEPT !.pc = "ciphers", !.configured = TRUE]
         ELSE /\ hs' = Raise("OSError")
              /\ UNCHANGED engine
    /\ UNCHANGED <<session_context, socket, connection_refs, socket_refs, transport,
                   faults, done_handshake, protocol>>
    /\ HsFrame

\* lines 564-609: a suite with no canonical name reaches the text pattern as
\* bytes, which is a TypeError where bytes and text do not mix
ConfigureCiphers ==
    /\ hs.pc = "ciphers"
    /\ \E o \in {"ok", "OSError", "Other"} :
         hs' = IF o = "ok" THEN [hs EXCEPT !.pc = "handshake"] ELSE Raise(o)
    /\ UNCHANGED <<session_context, socket, connection_refs, socket_refs, engine,
                   transport, faults, done_handshake, protocol>>
    /\ HsFrame

\* lines 611-613 and 647-649: one call of SSLHandshake in either loop
HandshakeStep ==
    /\ hs.pc \in {"handshake", "resume"}
    /\ \E r \in SSLHandshake :
         hs' = IF r = errSSLWouldBlock THEN hs
               ELSE [hs EXCEPT !.result = r,
                               !.paused = @ \/ r = errSSLServerAuthCompleted,
                               !.pc = IF hs.pc = "handshake" THEN "evaluate"
                                      ELSE "classify"]
    /\ UNCHANGED <<session_context, socket, connection_refs, socket_refs, engine,
                   transport, faults, done_handshake, protocol>>
    /\ HsFrame

\* lines 615-649 up to the second loop
ExplicitValidation ==
    /\ hs.pc = "evaluate"
    /\ IF explicit_validation /\ hs.result = errSSLServerAuthCompleted
       THEN \E ok \in BOOLEAN :
              IF ~ok THEN hs' = Raise("OSError")
              ELSE \E trust_result_code \in SecTrustEvaluate :
                     hs' = IF trust_result_code \notin TrustProceed
                           THEN [hs EXCEPT !.trust = trust_result_code,
                                           !.result = errSSLXCertChainInvalid,
                                           !.pc = "classify"]
                           ELSE [hs EXCEPT !.trust = trust_result_code,
                                           !.pc = "resume"]
       ELSE hs' = [hs EXCEPT !.pc = "classify"]
    /\ UNCHANGED <<session_context, socket, connection_refs, socket_refs, engine,
                   transport, faults, done_handshake, protocol>>
    /\ HsFrame

\* lines 651-745: every terminal status but success ends in a raise, and a
\* successful handshake with short Diffie-Hellman parameters does too
Classify ==
    /\ hs.pc = "classify"
    /\ done_handshake' = TRUE
    /\ \E weak_dh_params \in BOOLEAN :
         IF hs.result = noErr /\ ~weak_dh_params
         THEN /\ session_context' = hs.ctx
              /\ hs' = [hs EXCEPT !.pc = "record"]
         ELSE /\ hs' = Raise("OSError")
              /\ UNCHANGED session_context
    /\ UNCHANGED <<socket, connection_refs, socket_refs, engine, transport, faults,
                   protocol>>
    /\ HsFrame

\* lines 747-774
RecordNegotiated ==
    /\ hs.pc = "record"
    /\ \/ \E negotiated \in engine.enabled :
            /\ protocol' = negotiated
            /\ hs' = [hs EXCEPT !.pc = "established"]
       \/ \E k \in {"OSError", "Other"} :
            /\ hs' = Raise(k)
            /\ UNCHANGED protocol
    /\ UNCHANGED <<session_context, socket, connection_refs, socket_refs, engine,
                   transport, faults, done_handshake>>
    /\ HsFrame

\* lines 776-788: the except clause.  A release that reports an error leaves
\* the clause at line 780 with that error; an error of socket.close() is
\* caught inside close() (lines 1072-1075).
HandshakeExcept ==
    /\ hs.pc = "except"
    /\ \E f \in {"ok"}
             \cup (IF hs.ctx # NULL /\ osx_legacy /\ faults < MaxFaults
                   THEN {"release_fails"} ELSE {})
             \cup (IF socket # NULL /\ faults < MaxFaults
                   THEN {"socket_close_fails"} ELSE {}) :
         LET released == IF hs.ctx # NULL
                         THEN [engine EXCEPT !.releases = @ + 1] ELSE engine
         IN IF f = "release_fails"
            THEN /\ engine' = released
                 /\ faults' = faults + 1
                 /\ hs' = [hs EXCEPT !.pc = "raised", !.exc = "ReleaseError"]
                 /\ UNCHANGED <<session_context, socket, socket_refs, transport,
                                local_closed, close_called>>
            ELSE LET c == close_of(NULL, "ok")
                 IN /\ engine' = released
                    /\ session_context' = NULL
                    /\ socket' = c.sock
                    /\ socket_refs' = c.refs
                    /\ transport' = c.tr
                    /\ local_closed' = c.lc
                    /\ close_called' = TRUE
                    /\ faults' = IF f = "socket_close_fails" THEN faults + 1
                                 ELSE faults
                    /\ hs' = [hs EXCEPT !.pc = "raised"]
    /\ UNCHANGED <<connection_refs, done_handshake, protocol, decrypted_bytes,
                   incoming, peer_total, alive, frame, ret, rt, session, osx_legacy,
                   peer>>

InitHandshake ==
    /\ session_context = NULL
    /\ socket = SOCK
    /\ decrypted_bytes = <<>>
    /\ local_closed = FALSE
    /\ connection_refs = {}
    /\ socket_refs = {}
    /\ engine = NoEngine
    /\ transport = [closes |-> 0, shutdowns |-> 0]
    /\ incoming = <<>>
    /\ peer_total = 0
    /\ faults = 0
    /\ alive = TRUE
    /\ close_called = FALSE
    /\ frame = Idle
    /\ ret = Outcome("init", "return", <<>>, FALSE, NoCallYet, <<>>, <<>>)
    /\ rt = Disarmed
    /\ session \in [protocols : SUBSET Protocols,
                    manual_validation : BOOLEAN, extra_trust_roots : BOOLEAN]
    /\ osx_legacy \in BOOLEAN
    /\ peer \in [trusted : BOOLEAN, anchored : BOOLEAN]
    /\ hs = NotStarted
    /\ done_handshake = FALSE
    /\ protocol = "none"

NextHandshake ==
    \/ CreateContext
    \/ Register
    \/ ConfigureProtocols
    \/ ConfigureCiphers
    \/ HandshakeStep
    \/ ExplicitValidation
    \/ Classify
    \/ RecordNegotiated
    \/ HandshakeExcept

SpecHandshake == InitHandshake /\ [][NextHandshake]_vars

\* ---------------------------------------------------- the buffered channel
InitChannel ==
    /\ session = [protocols |-> DefaultProtocols, manual_validation |-> FALSE,
                  extra_trust_roots |-> FALSE]
    /\ osx_legacy \in BOOLEAN
    /\ peer = [trusted |-> TRUE, anchored |-> FALSE]
    /\ session_context = CTX
    /\ socket = SOCK
    /\ decrypted_bytes = <<>>
    /\ local_closed = FALSE
    /\ connection_refs = {CID}
    /\ socket_refs = {CID}
    /\ engine = [NoEngine EXCEPT !.allocated = TRUE,
                                 !.enabled = protocols_enabled]
    /\ transport = [closes |-> 0, shutdowns |-> 0]
    /\ incoming = <<>>
    /\ peer_total = 0
    /\ faults = 0
    /\ alive = TRUE
    /\ close_called = FALSE
    /\ frame = Idle
    /\ ret = Outcome("wrap", "return", <<>>, TRUE, NoCallYet, <<>>, <<>>)
    /\ rt = Disarmed
    /\ hs = [NotStarted EXCEPT !.pc = "established", !.ctx = CTX,
                               !.result = noErr, !.configured = TRUE]
    /\ done_handshake = TRUE
    /\ protocol = IF osx_legacy THEN "TLSv1" ELSE "TLSv1.2"

\* reads and writes on an established channel
NextChannel ==
    \/ \E b \in Byte : PeerSend(b)
    \/ \E n \in 1..MaxRead : Read(n)
    \/ \E m \in Markers : ReadUntilStart(m)
    \/ ReadUntilStep
    \/ \E n \in 1..MaxRead : ReadExactlyStart(n)
    \/ ReadExactlyStep
    \/ \E d \in SeqsUpTo(MaxWrite) \ {<<>>} : WriteStart(d)
    \/ WriteStep

SpecChannel == InitChannel /\ [][NextChannel]_vars

\* reads interleaved with shutdown(), close() and finalization
NextLifecycle ==
    \/ \E b \in Byte : PeerSend(b)
    \/ \E n \in 1..MaxRead : Read(n)
    \/ \E m \in Markers : ReadUntilStart(m)
    \/ ReadUntilStep
    \/ Shutdown
    \/ Close
    \/ Del

SpecLifecycle == InitChannel /\ [][NextLifecycle]_vars

\* read_exactly on a channel that may be shut down with bytes still buffered
NextDrain ==
    \/ \E b \in Byte : PeerSend(b)
    \/ \E m \in Markers : ReadUntilStart(m)
    \/ ReadUntilStep
    \/ \E n \in 1..MaxRead : ReadExactlyStart(n)
    \/ ReadExactlyStep
    \/ Shutdown

SpecDrain == InitChannel /\ [][NextDrain]_vars

\* ------------------------------------------- after the peer's close_notify
ReadUntilStepAfterCloseNotify == ReadUntilLoop(TRUE)

ReadExactlyStepAfterCloseNotify == ReadExactlyLoop(TRUE)

InitPeerClosed ==
    /\ session = [protocols |-> DefaultProtocols, manual_validation |-> FALSE,
                  extra_trust_roots |-> FALSE]
    /\ osx_legacy \in BOOLEAN
    /\ peer = [trusted |-> TRUE, anchored |-> FALSE]
    /\ session_context = CTX
    /\ socket = SOCK
    /\ decrypted_bytes = <<>>
    /\ local_closed = FALSE
    /\ connection_refs = {CID}
    /\ socket_refs = {CID}
    /\ engine = [NoEngine EXCEPT !.allocated = TRUE,
                                 !.enabled = protocols_enabled]
    /\ transport = [closes |-> 0, shutdowns |-> 0]
    /\ incoming \in SeqsUpTo(MaxStream)
    /\ peer_total = Len(incoming)
    /\ faults = 0
    /\ alive = TRUE
    /\ close_called = FALSE
    /\ frame = Idle
    /\ ret = Outcome("wrap", "return", <<>>, TRUE, NoCallYet, <<>>, <<>>)
    /\ rt = Disarmed
    /\ hs = [NotStarted EXCEPT !.pc = "established", !.ctx = CTX,
                               !.result = noErr, !.configured = TRUE]
    /\ done_handshake = TRUE
    /\ protocol = IF osx_legacy THEN "TLSv1" ELSE "TLSv1.2"

NextPeerClosed ==
    \/ \E m \in Markers : ReadUntilStart(m)
    \/ ReadUntilStepAfterCloseNotify
    \/ \E n \in 1..MaxRead : ReadExactlyStart(n)
    \/ ReadExactlyStepAfterCloseNotify

SpecPeerClosed == InitPeerClosed /\ [][NextPeerClosed]_vars

\* read_until and read_exactly are loops of one call: a pass that can be taken
\* is taken
SpecPeerClosedLive ==
    /\ SpecPeerClosed
    /\ WF_vars(ReadUntilStepAfterCloseNotify)
    /\ WF_vars(ReadExactlyStepAfterCloseNotify)

\* ------------------------------------------------- lines and split markers
\* A stream of line endings and text that the engine hands over in pieces of
\* any size.
MaxLine == 4

LineByte == {CR, LF, "a"}

LineStreams == UNION {[1..i -> LineByte] : i \in 0..MaxLine}

\* read_line() (line 961)
ReadLineStart == ReadUntilStart(line_regex)

InitLines ==
    /\ session = [protocols |-> DefaultProtocols, manual_validation |-> FALSE,
                  extra_trust_roots |-> FALSE]
    /\ osx_legacy \in BOOLEAN
    /\ peer = [trusted |-> TRUE, anchored |-> FALSE]
    /\ session_context = CTX
    /\ socket = SOCK
    /\ decrypted_bytes = <<>>
    /\ local_closed = FALSE
    /\ connection_refs = {CID}
    /\ socket_refs = {CID}
    /\ engine = [NoEngine EXCEPT !.allocated = TRUE,
                                 !.enabled = protocols_enabled]
    /\ transport = [closes |-> 0, shutdowns |-> 0]
    /\ incoming \in LineStreams
    /\ peer_total = Len(incoming)
    /\ faults = 0
    /\ alive = TRUE
    /\ close_called = FALSE
    /\ frame = Idle
    /\ ret = Outcome("wrap", "return", <<>>, TRUE, NoCallYet, <<>>, <<>>)
    /\ rt = Disarmed
    /\ hs = [NotStarted EXCEPT !.pc = "established", !.ctx = CTX,
                               !.result = noErr, !.configured = TRUE]
    /\ done_handshake = TRUE
    /\ protocol = IF osx_legacy THEN "TLSv1" ELSE "TLSv1.2"

NextLines ==
    \/ ReadLineStart
    \/ ReadUntilStart(<<CR, LF>>)
    \/ ReadUntilStep

SpecLines == InitLines /\ [][NextLines]_vars

\* -------------------------------------------------- certificate accessor
\* The chain the engine's trust object holds: the leaf, then the intermediates.
MaxChain == 3

CertName == {"A", "B"}

PeerChains == UNION {[1..i -> CertName] : i \in 1..MaxChain}

\* _certificate = None, _intermediates = None (lines 343-344)
NoCertificate == "None"

NoIntermediates == <<"None">>

\* how one run of _read_certificates ends: through, with SSLCopyPeerTrust
\* failing, or while the entry at one index is copied and parsed
ReadStops(chain) ==
    {[at |-> "none", index |-> 0], [at |-> "trust", index |-> 0]}
        \cup [at : {"entry"}, index : 0..(Len(chain) - 1)]

\* _read_certificates (lines 1087-1131): the fields afterwards and whether the
\* call raised.  The entries before the failing one have been stored.
read_certificates(certificate_field, intermediates_field, chain, stop) ==
    IF stop.at = "trust"
    THEN [raised |-> TRUE, certificate |-> certificate_field,
          intermediates |-> intermediates_field]
    ELSE LET done == IF stop.at = "entry" THEN stop.index ELSE Len(chain)
         IN [raised |-> stop.at = "entry",
             certificate |-> IF done >= 1 THEN chain[1] ELSE certificate_field,
             intermediates |-> SubSeq(chain, 2, done)]

\* the certificate and intermediates properties (lines 1152-1158, 1167-1173):
\* which is "certificate" or "intermediates"
accessor(which, stop) ==
    IF session_context = NULL
    THEN [kind |-> raise_closed, data |-> <<>>, read |-> FALSE,
          certificate |-> hs.certificate, intermediates |-> hs.intermediates]
    ELSE IF hs.certificate # NoCertificate
    THEN [kind |-> "return",
          data |-> IF which = "certificate" THEN <<hs.certificate>>
                   ELSE hs.intermediates,
          read |-> FALSE,
          certificate |-> hs.certificate, intermediates |-> hs.intermediates]
    ELSE LET r == read_certificates(hs.certificate, hs.intermediates, hs.chain, stop)
         IN [kind |-> IF r.raised THEN "os_error" ELSE "return",
             data |-> IF r.raised THEN <<>>
                      ELSE IF which = "certificate" THEN <<r.certificate>>
                      ELSE r.intermediates,
             read |-> TRUE,
             certificate |-> r.certificate, intermediates |-> r.intermediates]

Access(which) ==
    /\ Callable
    /\ \E stop \in ReadStops(hs.chain) :
         LET a == accessor(which, stop)
         IN /\ hs' = [hs EXCEPT !.certificate = a.certificate,
                                !.intermediates = a.intermediates]
            /\ ret' = Outcome(which, a.kind, a.data, a.read, Call(0, <<>>),
                              <<>>, <<>>)
    /\ UNCHANGED <<session_context, socket, decrypted_bytes, local_closed,
                   connection_refs, socket_refs, engine, transport, incoming,
                   peer_total, faults, alive, frame, close_called, rt, session,
                   osx_legacy, peer, done_handshake, protocol>>

InitCertificates ==
    /\ session = [protocols |-> DefaultProtocols, manual_validation |-> FALSE,
                  extra_trust_roots |-> FALSE]
    /\ osx_legacy \in BOOLEAN
    /\ peer = [trusted |-> TRUE, anchored |-> FALSE]
    /\ session_context = CTX
    /\ socket = SOCK
    /\ decrypted_bytes = <<>>
    /\ local_closed = FALSE
    /\ connection_refs = {CID}
    /\ socket_refs = {CID}
    /\ engine = [NoEngine EXCEPT !.allocated = TRUE,
                                 !.enabled = protocols_enabled]
    /\ transport = [closes |-> 0, shutdowns |-> 0]
    /\ incoming = <<>>
    /\ peer_total = 0
    /\ faults = 0
    /\ alive = TRUE
    /\ close_called = FALSE
    /\ frame = Idle
    /\ ret = Outcome("wrap", "return", <<>>, TRUE, NoCallYet, <<>>, <<>>)
    /\ rt = Disarmed
    /\ \E chain \in PeerChains :
         hs = [certificate |-> NoCertificate, intermediates |-> NoIntermediates,
               chain |-> chain]
    /\ done_handshake = TRUE
    /\ protocol = IF osx_legacy THEN "TLSv1" ELSE "TLSv1.2"

NextCertificates ==
    \/ Access("certificate")
    \/ Access("intermediates")
    \/ Shutdown

SpecCertificates == InitCertificates /\ [][NextCertificates]_vars

\* ------------------------------------------------------ TLSSession.__init__
AllTags == Protocols \cup {"SSLv2"}

\* the protocol argument: None, one text string, a set of strings, or a
\* value of another type
ProtocolArgs ==
    {[type |-> "None", tags |-> {}], [type |-> "list", tags |-> {}]}
    \cup {[type |-> "str", tags |-> {t}] : t \in AllTags}
    \cup {[type |-> "set", tags |-> ts] : ts \in SUBSET AllTags}

ManualArgs == {"True", "False", "None"}

TrustRootArgs == {"None", "empty", "certificates", "integers"}

NoSession == [protocols |-> {}, manual_validation |-> FALSE,
              extra_trust_roots |-> FALSE]

\* TLSSession(protocol, manual_validation, extra_trust_roots): the exception
\* raised, or the session constructed
TLSSession(protocol_arg, manual_validation, extra_trust_roots) ==
    LET chosen == IF protocol_arg.type = "None" THEN DefaultProtocols
                  ELSE protocol_arg.tags
        unsupported_protocols == chosen \ Protocols
    IN IF manual_validation \notin {"True", "False"}
       THEN [kind |-> "TypeError", session |-> NoSession]
       ELSE IF protocol_arg.type \notin {"None", "str", "set"}
       THEN [kind |-> "TypeError", session |-> NoSession]
       ELSE IF unsupported_protocols # {}
       THEN [kind |-> "ValueError", session |-> NoSession]
       ELSE IF extra_trust_roots = "integers"
       THEN [kind |-> "TypeError", session |-> NoSession]
       ELSE [kind |-> "return",
             session |-> [protocols |-> chosen,
                          manual_validation |-> (manual_validation = "True"),
                          extra_trust_roots |-> (extra_trust_roots = "certificates")]]

\* no socket exists yet: every field of the channel is at its class default
NoSocketYet ==
    /\ session_context = NULL
    /\ socket = NULL
    /\ decrypted_bytes = <<>>
    /\ local_closed = FALSE
    /\ connection_refs = {}
    /\ socket_refs = {}
    /\ engine = NoEngine
    /\ transport = [closes |-> 0, shutdowns |-> 0]
    /\ incoming = <<>>
    /\ peer_total = 0
    /\ faults = 0
    /\ alive = TRUE
    /\ close_called = FALSE
    /\ rt = Disarmed
    /\ osx_legacy \in BOOLEAN
    /\ peer = [trusted |-> TRUE, anchored |-> FALSE]
    /\ hs = NotStarted
    /\ done_handshake = FALSE
    /\ protocol = "none"

Construct ==
    /\ frame.op = "TLSSession"
    /\ LET r == TLSSession(frame.protocol, frame.manual_validation,
                           frame.extra_trust_roots)
       IN /\ ret' = [op |-> "TLSSession", kind |-> r.kind, args |-> frame]
          /\ session' = r.session
    /\ frame' = Idle
    /\ UNCHANGED <<session_context, socket, decrypted_bytes, local_closed,
                   connection_refs, socket_refs, engine, transport, incoming,
                   peer_total, faults, alive, close_called, rt, osx_legacy, peer,
                   hs, done_handshake, protocol>>

InitSession ==
    /\ NoSocketYet
    /\ frame \in [op : {"TLSSession"}, protocol : ProtocolArgs,
                  manual_validation : ManualArgs,
                  extra_trust_roots : TrustRootArgs]
    /\ ret = [op |-> "none", kind |-> "none", args |-> Idle]
    /\ session = NoSession

NextSession == Construct

SpecSession == InitSession /\ [][NextSession]_vars

\* ------------------------------------------------- cipher suite filtering
MaxSuites == 3

\* the entries of CIPHER_SUITE_MAP the model uses: suite id to canonical
\* name, one character per element
CIPHER_SUITE_MAP ==
    ("000A" :>
        <<"T", "L", "S", "_", "R", "S", "A", "_", "W", "I", "T", "H", "_",
          "3", "D", "E", "S", "_", "E", "D", "E", "_", "C", "B", "C", "_",
          "S", "H", "A">>)
    @@ ("0009" :>
        <<"T", "L", "S", "_", "R", "S", "A", "_", "W", "I", "T", "H", "_",
          "D", "E", "S", "_", "C", "B", "C", "_", "S", "H", "A">>)
    @@ ("002F" :>
        <<"T", "L", "S", "_", "R", "S", "A", "_", "W", "I", "T", "H", "_",
          "A", "E", "S", "_", "1", "2", "8", "_", "C", "B", "C", "_", "S",
          "H", "A">>)
    @@ ("0004" :>
        <<"T", "L", "S", "_", "R", "S", "A", "_", "W", "I", "T", "H", "_",
          "R", "C", "4", "_", "1", "2", "8", "_", "M", "D", "5">>)
    @@ ("0015" :>
        <<"T", "L", "S", "_", "D", "H", "E", "_", "R", "S", "A", "_", "W",
          "I", "T", "H", "_", "D", "E", "S", "_", "C", "B", "C", "_", "S",
          "H", "A">>)

\* a suite the engine supports and CIPHER_SUITE_MAP does not name
UnnamedSuite == "FFFF"

Suites == DOMAIN CIPHER_SUITE_MAP \cup {UnnamedSuite}

\* _cipher_blacklist_regex: the alternatives, and for (?<!3)DES the character
\* that must not come just before
cipher_blacklist_regex ==
    {[word |-> <<"a", "n", "o", "n">>, not_after |-> ""],
     [word |-> <<"P", "S", "K">>, not_after |-> ""],
     [word |-> <<"S", "E", "E", "D">>, not_after |-> ""],
     [word |-> <<"R", "C", "4">>, not_after |-> ""],
     [word |-> <<"M", "D", "5">>, not_after |-> ""],
     [word |-> <<"N", "U", "L", "L">>, not_after |-> ""],
     [word |-> <<"C", "A", "M", "E", "L", "L", "I", "A">>, not_after |-> ""],
     [word |-> <<"A", "R", "I", "A">>, not_after |-> ""],
     [word |-> <<"S", "R", "P">>, not_after |-> ""],
     [word |-> <<"K", "R", "B", "5">>, not_after |-> ""],
     [word |-> <<"E", "X", "P", "O", "R", "T">>, not_after |-> ""],
     [word |-> <<"D", "E", "S">>, not_after |-> "3"],
     [word |-> <<"I", "D", "E", "A">>, not_after |-> ""]}

\* the pattern with the look-behind left out of its DES alternative
blacklist_search_plain_des(name) ==
    \E alt \in cipher_blacklist_regex :
        \E i \in 1..(Len(name) - Len(alt.word) + 1) :
            SubSeq(name, i, i + Len(alt.word) - 1) = alt.word

\* _cipher_blacklist_regex.search(name) is not None
blacklist_search(name) ==
    \E alt \in cipher_blacklist_regex :
        \E i \in 1..(Len(name) - Len(alt.word) + 1) :
            /\ SubSeq(name, i, i + Len(alt.word) - 1) = alt.word
            /\ alt.not_after # "" => (i = 1 \/ name[i - 1] # alt.not_after)

\* good_cipher for one supported suite (lines 589-591); a suite without a
\* canonical name is searched as its two raw bytes, which match nothing
good_cipher(supported_cipher_suite) ==
    IF supported_cipher_suite \in DOMAIN CIPHER_SUITE_MAP
    THEN ~blacklist_search(CIPHER_SUITE_MAP[supported_cipher_suite])
    ELSE TRUE

good_ciphers(supported_cipher_suites) ==
    SelectSeq(supported_cipher_suites, good_cipher)

\* lists of distinct suites, as the engine reports them
SupportedLists ==
    {l \in UNION {[1..n -> Suites] : n \in 0..MaxSuites} :
        \A i, j \in DOMAIN l : i # j => l[i] # l[j]}

\* lines 564-604.  Where text and bytes are different types the search of a
\* raw byte string with the text pattern is a TypeError; SSLSetEnabledCiphers
\* can report an error.
SetEnabledCiphers ==
    /\ frame.op = "ciphers"
    /\ \E status \in {noErr, errSSLInternal} :
         ret' = [op |-> "ciphers", supported |-> frame.supported,
                 kind |-> IF frame.py3 /\ \E i \in DOMAIN frame.supported :
                                             frame.supported[i] = UnnamedSuite
                          THEN "TypeError"
                          ELSE IF status # noErr THEN "OSError" ELSE "return",
                 enabled |-> IF frame.py3 /\ \E i \in DOMAIN frame.supported :
                                                frame.supported[i] = UnnamedSuite
                             THEN <<>>
                             ELSE IF status # noErr THEN <<>>
                             ELSE good_ciphers(frame.supported)]
    /\ frame' = Idle
    /\ UNCHANGED <<session_context, socket, decrypted_bytes, local_closed,
                   connection_refs, socket_refs, engine, transport, incoming,
                   peer_total, faults, alive, close_called, rt, session,
                   osx_legacy, peer, hs, done_handshake, protocol>>

InitCiphers ==
    /\ NoSocketYet
    /\ session = [NoSession EXCEPT !.protocols = DefaultProtocols]
    /\ frame \in [op : {"ciphers"}, supported : SupportedLists, py3 : BOOLEAN]
    /\ ret = [op |-> "none", supported |-> <<>>, kind |-> "none", enabled |-> <<>>]

NextCiphers == SetEnabledCiphers

SpecCiphers == InitCiphers /\ [][NextCiphers]_vars

\* ------------------------------------------- classifying a rejected chain
handshake_error_codes ==
    {"errSSLXCertChainInvalid", "errSSLCertExpired", "errSSLCertNotYetValid",
     "errSSLUnknownRootCert", "errSSLNoRootCert", "errSSLHostNameMismatch"}

\* what SecTrustGetCssmResultCode can put in result_code
CssmResultCodes ==
    {"CSSMERR_TP_NOT_TRUSTED", "CSSMERR_TP_CERT_EXPIRED",
     "CSSMERR_TP_CERT_NOT_VALID_YET", "CSSMERR_APPLETP_HOSTNAME_MISMATCH",
     "CSSMERR_TP_CERT_REVOKED"}

HashAlgos == {"md5", "md2", "sha1", "sha256"}

NoChain == [present |-> FALSE, hash_algo |-> "sha256", self_signed |-> FALSE]

\* extract_chain(self._server_hello): nothing, or a chain whose first
\* certificate has this signature hash and is or is not self-signed
Chains ==
    {NoChain} \cup [present : {TRUE}, hash_algo : HashAlgos, self_signed : BOOLEAN]

\* lines 698-716 with the hostname test tried before the signature test
chain_error_hostname_first(result_code, chain, client_auth_request) ==
    LET self_signed == chain.present /\ chain.self_signed
        no_issuer == chain.present /\ ~self_signed
                     /\ result_code = "CSSMERR_TP_NOT_TRUSTED"
        expired == chain.present /\ result_code = "CSSMERR_TP_CERT_EXPIRED"
        not_yet_valid == chain.present
                         /\ result_code = "CSSMERR_TP_CERT_NOT_VALID_YET"
        bad_hostname == chain.present
                        /\ result_code = "CSSMERR_APPLETP_HOSTNAME_MISMATCH"
    IN IF bad_hostname THEN "raise_hostname"
       ELSE IF chain.present /\ chain.hash_algo \in {"md5", "md2"}
       THEN "raise_weak_signature"
       ELSE IF expired \/ not_yet_valid THEN "raise_expired_not_yet_valid"
       ELSE IF no_issuer THEN "raise_no_issuer"
       ELSE IF self_signed THEN "raise_self_signed"
       ELSE IF client_auth_request THEN "raise_client_auth"
       ELSE "raise_verification"

\* lines 682-716: the raise_* function the classifier ends in
chain_error(result_code, chain, client_auth_request) ==
    LET self_signed == chain.present /\ chain.self_signed
        no_issuer == chain.present /\ ~self_signed
                     /\ result_code = "CSSMERR_TP_NOT_TRUSTED"
        expired == chain.present /\ result_code = "CSSMERR_TP_CERT_EXPIRED"
        not_yet_valid == chain.present
                         /\ result_code = "CSSMERR_TP_CERT_NOT_VALID_YET"
        bad_hostname == chain.present
                        /\ result_code = "CSSMERR_APPLETP_HOSTNAME_MISMATCH"
    IN IF chain.present /\ chain.hash_algo \in {"md5", "md2"}
       THEN "raise_weak_signature"
       ELSE IF bad_hostname THEN "raise_hostname"
       ELSE IF expired \/ not_yet_valid THEN "raise_expired_not_yet_valid"
       ELSE IF no_issuer THEN "raise_no_issuer"
       ELSE IF self_signed THEN "raise_self_signed"
       ELSE IF client_auth_request THEN "raise_client_auth"
       ELSE "raise_verification"

\* lines 667-716: SSLCopyPeerTrust can report an error of its own
ClassifyChain ==
    /\ frame.op = "classify"
    /\ frame.handshake_result \in handshake_error_codes
    /\ \E copy_trust \in {noErr, errSSLInternal} :
         ret' = [op |-> "classify", args |-> frame,
                 kind |-> IF copy_trust # noErr THEN "OSError"
                          ELSE chain_error(frame.result_code, frame.chain,
                                           frame.client_auth_request)]
    /\ frame' = Idle
    /\ UNCHANGED <<session_context, socket, decrypted_bytes, local_closed,
                   connection_refs, socket_refs, engine, transport, incoming,
                   peer_total, faults, alive, close_called, rt, session,
                   osx_legacy, peer, hs, done_handshake, protocol>>

InitClassify ==
    /\ NoSocketYet
    /\ session = [NoSession EXCEPT !.protocols = DefaultProtocols]
    /\ frame \in [op : {"classify"}, handshake_result : handshake_error_codes,
                  result_code : CssmResultCodes, chain : Chains,
                  client_auth_request : BOOLEAN]
    /\ ret = [op |-> "none", args |-> Idle, kind |-> "none"]

NextClassify == ClassifyChain

SpecClassify == InitClassify /\ [][NextClassify]_vars

\* -------------------------------------- the handshake loop and the bridge
\* what the server can put on the wire: a piece of a TLS record, or a piece
\* of the greeting of a plain-text protocol
HelloByte == {"tls", "txt"}

\* detect_other_protocol(server_hello): the capture begins like a reply of a
\* protocol that is not TLS
detect_other_protocol(server_hello) ==
    server_hello # <<>> /\ server_hello[1] = "txt"

ClosedStatuses == {errSSLClosedNoNotify, errSSLClosedAbort}

errSSLProtocol == "errSSLProtocol"

\* How the recv loop of lines 120-129 can end for bytes_requested bytes: with
\* all of them, or after k < bytes_requested of them with socket.timeout (its
\* errno is None), EAGAIN, ECONNRESET, another errno, or an empty chunk from a
\* peer that closed.  A blocking socket without a timeout never times out and
\* a silent peer causes no error.
RecvEndings(bytes_requested) ==
    LET avail == Min(bytes_requested, Len(incoming))
    IN (IF avail = bytes_requested
        THEN {[k |-> avail, end |-> "full"]} ELSE {})
       \cup {[k |-> k, end |-> e] :
                k \in 0..Min(avail, bytes_requested - 1),
                e \in (IF transport.timeout = "finite" THEN {"timeout"} ELSE {})
                      \cup (IF peer.silent THEN {}
                            ELSE {"EAGAIN", "ECONNRESET", "EPIPE", "eof"})}

\* _read_callback with a reset connection reported as an abort
read_callback_reset_aborts(bytes_requested, r, capture) ==
    LET data == Take(incoming, r.k)
        kept == IF ~done_handshake THEN capture \o data ELSE capture
    IN IF r.end = "eof" /\ transport.timeout = "None" /\ r.k = 0
       THEN [status |-> errSSLClosedNoNotify, server_hello |-> capture,
             delivered |-> <<>>]
       ELSE IF r.end = "eof" /\ transport.timeout # "None"
       THEN [status |-> "spin", server_hello |-> capture, delivered |-> <<>>]
       ELSE IF r.end \in {"ECONNRESET", "EPIPE"}
       THEN [status |-> errSSLClosedAbort, server_hello |-> capture,
             delivered |-> <<>>]
       ELSE IF r.k # bytes_requested
       THEN [status |-> errSSLWouldBlock, server_hello |-> kept,
             delivered |-> data]
       ELSE [status |-> noErr, server_hello |-> kept, delivered |-> data]

\* _read_callback (lines 107-145) for a live socket object: the status handed
\* to the engine, the bytes written to the engine's buffer and the server
\* capture afterwards.  "spin" stands for the loop of lines 121-127 that never
\* leaves: recv keeps answering b'' and the socket has a timeout.
read_callback(bytes_requested, r, capture) ==
    LET data == Take(incoming, r.k)
        kept == IF ~done_handshake THEN capture \o data ELSE capture
    IN IF r.end = "eof" /\ transport.timeout = "None" /\ r.k = 0
       THEN [status |-> errSSLClosedNoNotify, server_hello |-> capture,
             delivered |-> <<>>]
       ELSE IF r.end = "eof" /\ transport.timeout # "None"
       THEN [status |-> "spin", server_hello |-> capture, delivered |-> <<>>]
       ELSE IF r.end = "ECONNRESET"
       THEN [status |-> errSSLClosedNoNotify, server_hello |-> capture,
             delivered |-> <<>>]
       ELSE IF r.end = "EPIPE"
       THEN [status |-> errSSLClosedAbort, server_hello |-> capture,
             delivered |-> <<>>]
       ELSE IF r.k # bytes_requested
       THEN [status |-> errSSLWouldBlock, server_hello |-> kept,
             delivered |-> data]
       ELSE [status |-> noErr, server_hello |-> kept, delivered |-> data]

\* _read_remaining(socket): one non-blocking recv of up to 8192 bytes
read_remaining == incoming

\* the last call of the bridge's read side: what was asked, how recv ended,
\* what was on the socket, and what the engine got
NoPull ==
    [bytes_requested |-> 0, k |-> 0, end |-> "none", readable |-> <<>>,
     status |-> "none", delivered |-> <<>>]

Pull(bytes_requested, r, b) ==
    [bytes_requested |-> bytes_requested, k |-> r.k, end |-> r.end,
     readable |-> incoming, status |-> b.status, delivered |-> b.delivered]

BridgeStart ==
    [pc |-> "hello", ctx |-> CTX, result |-> "none", exc |-> "none",
     error |-> "none", bridge |-> "none", server_hello |-> <<>>,
     client_hello |-> <<>>, at_classify |-> [server_hello |-> <<>>, unread |-> <<>>],
     pull |-> NoPull]

\* what the bridge actions leave alone
BridgeFrame ==
    UNCHANGED <<socket, decrypted_bytes, local_closed, connection_refs,
                socket_refs, engine, transport, faults, alive, frame, ret,
                close_called, rt, session, osx_legacy, peer, protocol>>

\* the server sends one more piece
ServerSend(b) ==
    /\ ~peer.silent
    /\ socket # NULL
    /\ peer_total < MaxStream
    /\ hs.pc \notin {"raised", "spin"}
    /\ incoming' = Append(incoming, b)
    /\ peer_total' = peer_total + 1
    /\ UNCHANGED <<session_context, hs, done_handshake>>
    /\ BridgeFrame

\* _write_callback (lines 190-220) carrying the client hello
WriteClientHello ==
    /\ hs.pc = "hello"
    /\ hs' = [hs EXCEPT !.pc = "handshake",
                        !.client_hello = IF ~done_handshake
                                         THEN @ \o <<"hello">> ELSE @]
    /\ UNCHANGED <<session_context, incoming, peer_total, done_handshake>>
    /\ BridgeFrame

\* Security.SSLHandshake asks the bridge for bytes (lines 611-613 entering
\* _read_callback)
BridgeRead ==
    /\ hs.pc = "handshake"
    /\ \E bytes_requested \in 1..MaxRead :
         \E r \in RecvEndings(bytes_requested) :
            LET b == read_callback(bytes_requested, r, hs.server_hello)
            IN /\ incoming' = Drop(incoming, r.k)
               /\ hs' = [hs EXCEPT !.pc = IF b.status = "spin" THEN "spin"
                                          ELSE "engine",
                                   !.bridge = b.status,
                                   !.pull = Pull(bytes_requested, r, b),
                                   !.server_hello = b.server_hello]
    /\ UNCHANGED <<session_context, peer_total, done_handshake>>
    /\ BridgeFrame

\* Security.SSLHandshake returns: the bridge's would-block or closure is its
\* own status; with the bytes it asked for the engine wants more, completes,
\* or rejects what it read
EngineReturn ==
    /\ hs.pc = "engine"
    /\ \E handshake_result \in
            IF hs.bridge # noErr THEN {hs.bridge}
            ELSE {errSSLWouldBlock, errSSLPeerHandshakeFail}
                 \cup (IF \E i \in DOMAIN hs.server_hello : hs.server_hello[i] = "txt"
                       THEN {errSSLProtocol} ELSE {noErr}) :
         hs' = [hs EXCEPT !.result = handshake_result,
                          !.bridge = "none",
                          !.pc = IF handshake_result = errSSLWouldBlock
                                 THEN "handshake" ELSE "done"]
    /\ UNCHANGED <<session_context, incoming, peer_total, done_handshake>>
    /\ BridgeFrame

\* line 651
SetDoneHandshake ==
    /\ hs.pc = "done"
    /\ done_handshake' = TRUE
    /\ hs' = [hs EXCEPT !.pc = "classify"]
    /\ UNCHANGED <<session_context, incoming, peer_total>>
    /\ BridgeFrame

\* lines 718-745 for the statuses the loop can end with here
ClassifyResult ==
    /\ hs.pc = "classify"
    /\ LET seen == [server_hello |-> hs.server_hello, unread |-> incoming]
           drain_protocol == hs.result = errSSLProtocol
           drain_closed == hs.result \in ClosedStatuses /\ ~done_handshake
           drained == IF drain_protocol \/ drain_closed
                      THEN hs.server_hello \o read_remaining
                      ELSE hs.server_hello
           error == IF hs.result = errSSLPeerHandshakeFail THEN "raise_handshake"
                    ELSE IF hs.result = errSSLProtocol THEN "raise_protocol_error"
                    ELSE IF hs.result \in ClosedStatuses
                    THEN IF detect_other_protocol(drained)
                         THEN "raise_protocol_error" ELSE "raise_disconnection"
                    ELSE "none"
       IN /\ incoming' = IF drain_protocol \/ drain_closed THEN <<>> ELSE incoming
          /\ hs' = [hs EXCEPT !.server_hello = drained,
                              !.at_classify = seen,
                              !.error = error,
                              !.exc = IF error = "none" THEN "none" ELSE "OSError",
                              !.pc = IF error = "none" THEN "established"
                                     ELSE "except"]
          /\ session_context' = IF error = "none" THEN hs.ctx ELSE session_context
    /\ UNCHANGED <<peer_total, done_handshake>>
    /\ BridgeFrame

\* the engine reads through the bridge on the established channel
EstablishedRead ==
    /\ hs.pc = "established"
    /\ incoming # <<>>
    /\ \E bytes_requested \in 1..MaxRead :
         \E r \in {e \in RecvEndings(bytes_requested) : e.end \in {"full", "timeout"}} :
            LET b == read_callback(bytes_requested, r, hs.server_hello)
            IN /\ incoming' = Drop(incoming, r.k)
               /\ hs' = [hs EXCEPT !.server_hello = b.server_hello,
                                   !.pull = Pull(bytes_requested, r, b)]
    /\ UNCHANGED <<session_context, peer_total, done_handshake>>
    /\ BridgeFrame

InitBridge ==
    /\ session = [NoSession EXCEPT !.protocols = DefaultProtocols]
    /\ osx_legacy \in BOOLEAN
    /\ peer \in [trusted : {TRUE}, anchored : {FALSE}, silent : BOOLEAN]
    /\ session_context = NULL
    /\ socket = SOCK
    /\ decrypted_bytes = <<>>
    /\ local_closed = FALSE
    /\ connection_refs = {CID}
    /\ socket_refs = {CID}
    /\ engine = [NoEngine EXCEPT !.allocated = TRUE, !.enabled = protocols_enabled]
    /\ transport \in [closes : {0}, shutdowns : {0}, timeout : {"None", "finite"}]
    /\ incoming = <<>>
    /\ peer_total = 0
    /\ faults = 0
    /\ alive = TRUE
    /\ close_called = FALSE
    /\ frame = Idle
    /\ ret = Outcome("init", "return", <<>>, FALSE, NoCallYet, <<>>, <<>>)
    /\ rt = Disarmed
    /\ hs = BridgeStart
    /\ done_handshake = FALSE
    /\ protocol = "none"

NextBridge ==
    \/ \E b \in HelloByte : ServerSend(b)
    \/ WriteClientHello
    \/ BridgeRead
    \/ EngineReturn
    \/ SetDoneHandshake
    \/ ClassifyResult
    \/ HandshakeExcept
    \/ EstablishedRead

SpecBridge == InitBridge /\ [][NextBridge]_vars

\* the handshake is one call: each of its steps is taken when it can be
SpecBridgeLive ==
    /\ SpecBridge
    /\ WF_vars(WriteClientHello)
    /\ WF_vars(BridgeRead)
    /\ WF_vars(EngineReturn)
    /\ WF_vars(SetDoneHandshake)
    /\ WF_vars(ClassifyResult)
    /\ WF_vars(HandshakeExcept)

\* ------------------------------------------------- the bridge's write side
\* The engine's outgoing record bytes are numbered 1, 2, ... in the order the
\* engine produces them, so that a byte recorded twice or out of order shows.
MaxPush == 3

\* how one socket.send(data) ends (line 207): it accepts a leading part of the
\* data, or raises; "timeout" is socket.timeout, whose errno is None
SendEndings(data_length) ==
    [sent : 1..data_length, end : {"ok"}]
        \cup [sent : {0},
              end : {"EAGAIN", "ECONNRESET", "EPIPE"}
                    \cup (IF transport.timeout = "finite" THEN {"timeout"} ELSE {})]

\* _write_callback (lines 199-220) for a live socket object: the outcome of
\* the call, the value left in the length pointer, and the client capture
\* afterwards.  When send raises EAGAIN or times out, line 216 reads the name
\* sent, which line 207 never bound: the call ends with UnboundLocalError.
write_callback(data, s, capture) ==
    LET data_length == Len(data)
        kept == IF ~done_handshake THEN capture \o data ELSE capture
    IN IF s.end = "ECONNRESET"
       THEN [status |-> errSSLClosedNoNotify, length |-> data_length,
             client_hello |-> kept]
       ELSE IF s.end = "EPIPE"
       THEN [status |-> errSSLClosedAbort, length |-> data_length,
             client_hello |-> kept]
       ELSE IF s.end \in {"EAGAIN", "timeout"}
       THEN [status |-> "UnboundLocalError", length |-> data_length,
             client_hello |-> kept]
       ELSE IF s.sent # data_length
       THEN [status |-> errSSLWouldBlock, length |-> s.sent,
             client_hello |-> kept]
       ELSE [status |-> noErr, length |-> data_length, client_hello |-> kept]

NoPush ==
    [data |-> <<>>, end |-> "none", sent |-> 0, status |-> "none", length |-> 0]

\* pending: produced by the engine and not yet reported as written;
\* wire: the bytes the socket accepted, in order
PushStart ==
    [pc |-> "open", produced |-> 0, pending |-> <<>>, wire |-> <<>>,
     client_hello |-> <<>>, push |-> NoPush]

\* the engine produces the next byte of its outgoing records
EngineProduce ==
    /\ hs.pc = "open"
    /\ hs.produced < MaxPush
    /\ hs' = [hs EXCEPT !.produced = @ + 1, !.pending = @ \o <<hs.produced + 1>>]
    /\ UNCHANGED <<session_context, incoming, peer_total, done_handshake>>
    /\ BridgeFrame

\* the engine hands what it has pending, or a leading part of it, to
\* _write_callback.  A callback that ends with an exception gives the engine
\* the binding's default return value 0 with the length pointer untouched;
\* a closed status ends the engine's session.
BridgeWrite ==
    /\ hs.pc = "open"
    /\ hs.pending # <<>>
    /\ \E data_length \in 1..Len(hs.pending) :
         \E s \in SendEndings(data_length) :
            LET data == Take(hs.pending, data_length)
                w == write_callback(data, s, hs.client_hello)
            IN hs' = [hs EXCEPT
                        !.pc = IF w.status \in ClosedStatuses THEN "closed" ELSE "open",
                        !.pending = IF w.status \in ClosedStatuses THEN @
                                    ELSE Drop(@, w.length),
                        !.wire = @ \o Take(data, s.sent),
                        !.client_hello = w.client_hello,
                        !.push = [data |-> data, end |-> s.end, sent |-> s.sent,
                                  status |-> w.status, length |-> w.length]]
    /\ UNCHANGED <<session_context, incoming, peer_total, done_handshake>>
    /\ BridgeFrame

\* line 651, reached once nothing is pending
PushDoneHandshake ==
    /\ hs.pc = "open"
    /\ hs.pending = <<>>
    /\ hs.produced > 0
    /\ ~done_handshake
    /\ done_handshake' = TRUE
    /\ UNCHANGED <<session_context, incoming, peer_total, hs>>
    /\ BridgeFrame

InitPush ==
    /\ session = [NoSession EXCEPT !.protocols = DefaultProtocols]
    /\ osx_legacy \in BOOLEAN
    /\ peer \in [trusted : {TRUE}, anchored : {FALSE}, silent : BOOLEAN]
    /\ session_context = CTX
    /\ socket = SOCK
    /\ decrypted_bytes = <<>>
    /\ local_closed = FALSE
    /\ connection_refs = {CID}
    /\ socket_refs = {CID}
    /\ engine = [NoEngine EXCEPT !.allocated = TRUE, !.enabled = protocols_enabled]
    /\ transport \in [closes : {0}, shutdowns : {0}, timeout : {"None", "finite"}]
    /\ incoming = <<>>
    /\ peer_total = 0
    /\ faults = 0
    /\ alive = TRUE
    /\ close_called = FALSE
    /\ frame = Idle
    /\ ret = Outcome("init", "return", <<>>, FALSE, NoCallYet, <<>>, <<>>)
    /\ rt = Disarmed
    /\ hs = PushStart
    /\ done_handshake = FALSE
    /\ protocol = "none"

NextPush ==
    \/ EngineProduce
    \/ BridgeWrite
    \/ PushDoneHandshake

SpecPush == InitPush /\ [][NextPush]_vars

\* ------------------------------------------------------------------ claims
AtRest == frame.op = "idle"

\* C1: on an open channel whose buffer holds k bytes, 0 < k < n, with nothing
\* readable on the transport, read(n) returns exactly the k buffered bytes,
\* empties the buffer and does not invoke the engine's decrypt primitive.
C1_ShortReadSkipsEngine ==
    (/\ ret.op = "read"
     /\ AtRest
     /\ ret.pre.ctx # NULL
     /\ 0 < Len(ret.pre.buf)
     /\ Len(ret.pre.buf) < ret.n
     /\ ~ret.pre.readable)
    => (/\ ret.kind = "return"
        /\ ret.data = ret.pre.buf
        /\ decrypted_bytes = <<>>
        /\ ~ret.called)

\* C2: whenever the buffer holds at least n bytes, read(n) returns exactly the
\* first n buffered bytes, leaves the rest at the front of the buffer and makes
\* no engine call.
C2_BufferedReadIsExact ==
    (/\ ret.op = "read"
     /\ AtRest
     /\ Len(ret.pre.buf) >= ret.n)
    => (/\ ret.kind = "return"
        /\ ret.data = Take(ret.pre.buf, ret.n)
        /\ decrypted_bytes = Drop(ret.pre.buf, ret.n)
        /\ ~ret.called)

\* C3: read_until returns a string ending exactly at the end of the marker
\* match; what it pulled past the marker is put back as the decrypted buffer
\* (result followed by buffer is exactly what was buffered plus what the engine
\* delivered), and the next read call returns those bytes first.
C3_ReadUntilPutsBack ==
    /\ (ret.op = "read_until" /\ ret.kind = "return")
       => (/\ EndsWith(ret.data, ret.marker)
           /\ ret.data \o ret.past = ret.pre.buf \o ret.pulled
           /\ AtRest => decrypted_bytes = ret.past)
    /\ (/\ ret.op \in {"read", "read_exactly", "read_until"}
        /\ ret.kind = "return"
        /\ ret.pushed_before # <<>>)
       => (/\ ret.data # <<>>
           /\ \/ IsPrefix(ret.pushed_before, ret.data)
              \/ IsPrefix(ret.data, ret.pushed_before))

C3_Witness ==
    /\ ret.op = "read"
    /\ ret.kind = "return"
    /\ ret.pushed_before # <<>>
    /\ IsPrefix(ret.pushed_before, ret.data)
    /\ Len(ret.data) > Len(ret.pushed_before)

C5_SecondCloseIsNoOp ==
    (ret.op \in {"close", "del"} /\ ret.pre.close_called)
    => (/\ ret.kind = "return"
        /\ engine = ret.pre.engine
        /\ transport = ret.pre.transport
        /\ socket_refs = ret.pre.socket_refs)

\* C6: a payload p written with write(p) and echoed by the peer is returned
\* unchanged by read_exactly(len(p)), however the engine splits the writes and
\* the reads.
C6_RoundTrip ==
    rt.phase = "done"
    => (ret.op = "read_exactly" /\ ret.n = Len(rt.p) /\ ret.data = rt.p)

C6_Witness ==
    /\ rt.phase = "done"
    /\ ret.op = "read_exactly"
    /\ Len(rt.p) >= 2
    /\ rt.p[1] # rt.p[2]
    /\ ret.data = rt.p

\* ------------------------------------------------------- handshake claims
\* C7: with extra trust roots and no manual validation, the handshake is
\* established only after trust was evaluated against the extra roots and the
\* result was proceed or unspecified, on the per-version path and on the
\* min/max path alike.
C7_EstablishedOnlyAfterTrustEvaluation ==
    (explicit_validation /\ hs.pc = "established") => hs.trust \in TrustProceed

\* C8: the engine is told to pause on server authentication only under the
\* explicit override, and with manual validation the paused status is never
\* the terminal handshake result that is turned into an error.
C8_PauseOnlyForExplicitOverride ==
    /\ engine.break_on_auth => explicit_validation
    /\ ~(/\ hs.pc = "raised"
         /\ session.manual_validation
         /\ hs.result = errSSLServerAuthCompleted)

\* C9: the versions the engine is configured to negotiate are exactly the
\* session's protocols, so the protocol recorded on an established channel
\* is one of the session's protocols.
C9_EngineProtocolsAreSessionProtocols ==
    /\ hs.configured => engine.enabled = session.protocols
    /\ hs.pc = "established" => protocol \in session.protocols

\* C10: when the handshake ends by raising, whatever the exception and
\* whatever step raised it, the engine context has been disposed, the raw
\* transport has been closed, the context handle is null and the connection id
\* has left the registry.
C10_RaisingHandshakeTearsDown ==
    hs.pc = "raised" =>
        /\ hs.ctx # NULL => engine.releases >= 1
        /\ transport.closes >= 1
        /\ session_context = NULL
        /\ CID \notin socket_refs

\* C11: in the teardown after a failed handshake, a failure of the context
\* release or of the transport close is swallowed: the caller still receives
\* the handshake's own error, the transport has been closed and the registry
\* entry removed.
C11_TeardownFailuresAreSwallowed ==
    (hs.pc = "raised" /\ hs.exc # "Other") =>
        /\ hs.exc = "OSError"
        /\ transport.closes >= 1
        /\ CID \notin socket_refs

C13_SessionProtocolsValidated ==
    ret.op = "TLSSession" =>
        /\ ret.kind = "return" =>
              /\ session.protocols # {}
              /\ session.protocols \subseteq Protocols
        /\ (/\ ret.args.protocol.type = "set"
            /\ \/ ret.args.protocol.tags = {}
               \/ ~(ret.args.protocol.tags \subseteq Protocols))
           => ret.kind \in {"TypeError", "ValueError"}

\* C14: the list installed as enabled is the engine's supported list without
\* the suites whose canonical name matches the blacklist, in the reported
\* order: nothing blacklisted is enabled, nothing else is dropped, triple-DES
\* suites stay while single-DES suites go, and the list is determined by the
\* reported list alone.
C14_EnabledCiphersAreFiltered ==
    (ret.op = "ciphers" /\ ret.kind = "return") =>
        LET reported == {ret.supported[i] : i \in DOMAIN ret.supported}
            kept == {ret.enabled[i] : i \in DOMAIN ret.enabled}
        IN /\ kept \subseteq reported
           /\ ret.enabled = SelectSeq(ret.supported, LAMBDA c : c \in kept)
           /\ \A c \in reported \cap DOMAIN CIPHER_SUITE_MAP :
                  c \in kept <=> ~blacklist_search(CIPHER_SUITE_MAP[c])
           /\ UnnamedSuite \in reported => UnnamedSuite \in kept
           /\ "000A" \in reported => "000A" \in kept
           /\ kept \cap {"0009", "0015", "0004"} = {}
           /\ "002F" \in reported => "002F" \in kept

C14_Witness ==
    /\ ret.op = "ciphers"
    /\ ret.kind = "return"
    /\ Len(ret.supported) = MaxSuites
    /\ ret.supported[1] = "0009"
    /\ ret.supported[3] = "000A"
    /\ ret.enabled = <<"000A">>

\* C15: for a status of the chain-invalid family and a captured leaf, the
\* error is chosen by strict priority: weak signature (MD5 or MD2 leaf), then
\* hostname mismatch, then expired or not yet valid, then missing issuer (not
\* trusted and leaf not self-signed), then self-signed; one error results.
C15_ChainErrorPriority ==
    (ret.op = "classify" /\ ret.kind # "OSError" /\ ret.args.chain.present) =>
        LET a == ret.args
            weak == a.chain.hash_algo \in {"md5", "md2"}
            hostname == a.result_code = "CSSMERR_APPLETP_HOSTNAME_MISMATCH"
            dates == a.result_code \in {"CSSMERR_TP_CERT_EXPIRED",
                                        "CSSMERR_TP_CERT_NOT_VALID_YET"}
            issuer == a.result_code = "CSSMERR_TP_NOT_TRUSTED"
                      /\ ~a.chain.self_signed
        IN /\ weak => ret.kind = "raise_weak_signature"
           /\ (~weak /\ hostname) => ret.kind = "raise_hostname"
           /\ (~weak /\ ~hostname /\ dates) =>
                  ret.kind = "raise_expired_not_yet_valid"
           /\ (~weak /\ ~hostname /\ ~dates /\ issuer) =>
                  ret.kind = "raise_no_issuer"
           /\ (~weak /\ ~hostname /\ ~dates /\ ~issuer /\ a.chain.self_signed) =>
                  ret.kind = "raise_self_signed"

C15_Witness ==
    /\ ret.op = "classify"
    /\ ret.kind = "raise_weak_signature"
    /\ ret.args.chain.present
    /\ ret.args.chain.self_signed
    /\ ret.args.result_code = "CSSMERR_APPLETP_HOSTNAME_MISMATCH"

\* C16: for a status of the chain-invalid family, a server hello that asks for
\* a client certificate yields the client-auth error whenever the leaf is not
\* MD5/MD2-signed, also when hostname, expiry, missing-issuer or self-signed
\* conditions hold.
C16_ClientAuthOverrides ==
    (/\ ret.op = "classify"
     /\ ret.kind # "OSError"
     /\ ret.args.client_auth_request
     /\ ~(ret.args.chain.present /\ ret.args.chain.hash_algo \in {"md5", "md2"}))
    => ret.kind = "raise_client_auth"

\* C17: whenever read_exactly(n) returns, the byte string it returns has
\* length exactly n.
C17_ReadExactlyLength ==
    (AtRest /\ ret.op = "read_exactly" /\ ret.kind = "return")
    => Len(ret.data) = ret.n

\* C18: on a transport with a finite timeout and a server that never sends,
\* the handshake ends: the bridge does not go on reporting would-block for
\* expired timeouts, so the loop does not step the engine forever.
C18_SilentPeerHandshakeEnds ==
    (peer.silent /\ transport.timeout = "finite")
        ~> (hs.pc \in {"established", "raised"})

\* C19: when the handshake ends with a closed status, the bytes still readable
\* on the socket are added to the server capture before the capture is tested
\* for another protocol; a capture that matches gives the protocol error, any
\* other the disconnection error.
C19_ClosedHandshakeDrainsFirst ==
    (hs.pc \in {"except", "raised"} /\ hs.result \in ClosedStatuses) =>
        /\ hs.server_hello = hs.at_classify.server_hello \o hs.at_classify.unread
        /\ hs.error = IF detect_other_protocol(hs.server_hello)
                      THEN "raise_protocol_error" ELSE "raise_disconnection"

\* C20: once _done_handshake is set, neither capture changes again, whatever
\* runs: a bridge call, a branch of the classifier, or a later operation.
C20_CapturesFrozenOnceDone ==
    [][done_handshake =>
          /\ hs'.server_hello = hs.server_hello
          /\ hs'.client_hello = hs.client_hello]_vars

\* ------------------------------------------------------- lifetime claims
\* C21: the context handle is non-null exactly while the channel is open: it
\* is set on an established channel that nobody has shut down or closed, and
\* it is null once a shutdown() or close() call has finished, whether the call
\* returned or raised.
C21_HandleSetIffOpen ==
    /\ (engine.close_signals = 0 /\ ~close_called) => session_context # NULL
    /\ (AtRest /\ ret.op \in {"shutdown", "close", "del"}) => session_context = NULL

\* C22: from registration on, the connection id resolves in the registries
\* (through the live-object entry or the raw-socket entry) exactly while the
\* socket has not been closed; after close() the bridge cannot resolve it.
C22_IdResolvesIffNotClosed ==
    (CID \in connection_refs \cup socket_refs) <=> (socket # NULL)

\* C23: over any sequence of shutdown, close and finalization, also when the
\* engine's close or release reports an error, the context is released exactly
\* once: never a second time, and never left unreleased when the object is gone.
C23_ContextReleasedOnce ==
    /\ engine.releases <= 1
    /\ ~alive => engine.releases = 1

C25_PullReturnsAfterEmptyReceive ==
    hs.pull.end = "eof" =>
        /\ hs.pull.status \in {noErr, errSSLWouldBlock} \cup ClosedStatuses
        /\ hs.pc # "spin"

\* C26: the bridge's write side always returns a status, with pull's error
\* mapping: a send that raises try-again gives would-block reporting zero
\* bytes written, ECONNRESET gives the close status pull gives for it, any
\* other socket error gives abrupt close, a short send gives would-block
\* carrying the count the socket accepted, and a full send gives success;
\* the call never ends with an unhandled error.
C26_PushAlwaysReturnsStatus ==
    hs.push.status # "none" =>
        LET c == hs.push
        IN /\ c.status \in {noErr, errSSLWouldBlock} \cup ClosedStatuses
           /\ c.end = "EAGAIN" => (c.status = errSSLWouldBlock /\ c.length = 0)
           /\ c.end = "ECONNRESET" => c.status = errSSLClosedNoNotify
           /\ c.end = "EPIPE" => c.status = errSSLClosedAbort
           /\ (c.end = "ok" /\ c.sent < Len(c.data))
                => (c.status = errSSLWouldBlock /\ c.length = c.sent)
           /\ (c.end = "ok" /\ c.sent = Len(c.data)) => c.status = noErr

\* C27: while the handshake is not done the client capture is exactly the
\* bytes the socket accepted for sending, in order: nothing of a failed send
\* is recorded and nothing is recorded twice when the rest of a short send is
\* pushed again.
C27_ClientCaptureIsWhatWasSent ==
    ~done_handshake => hs.client_hello = hs.wire

\* ------------------------------------------------------------ stream claims
\* C28: reads lose, duplicate and reorder nothing: after any read, read_until
\* or read_exactly, what the call handed back followed by the decrypted buffer
\* is the buffer the call started with followed by the bytes the engine
\* decrypted during the call, so that over any sequence of calls everything
\* returned plus the buffer is everything the engine has produced.
C28_ReadsConserveStream ==
    (AtRest /\ ret.op \in {"read", "read_until", "read_exactly"})
        => ret.data \o decrypted_bytes = ret.pre.buf \o ret.pulled

\* C29: read_until and read_exactly end: when the peer has closed the
\* connection gracefully before the marker or the requested count arrived, so
\* that the engine answers graceful close with zero bytes, a call in progress
\* returns or raises and does not go on looping over empty reads.
C29_ReadLoopsEndAfterGracefulClose ==
    (frame.op \in {"read_until", "read_exactly"}) ~> AtRest

\* C30: what read_until(marker) returns does not depend on how the decrypted
\* stream arrives in chunks: it is the shortest prefix of the remaining stream
\* (the buffer, then the bytes to come) that ends with a match of the marker.
\* A two-byte marker lying across two chunks is found, and read_line takes a
\* CR LF lying across two chunks as one line ending.
C30_ReadUntilIgnoresChunking ==
    (AtRest /\ ret.op = "read_until" /\ ret.kind = "return") =>
        LET stream == ret.pre.buf \o ret.pulled \o incoming
            end == IF ret.marker = line_regex
                   THEN line_regex_search(stream)
                   ELSE find(stream, ret.marker) + Len(ret.marker)
        IN ret.data = Take(stream, end)

\* ------------------------------------------------------ certificate claims
\* C31: the certificate accessor is all-or-nothing: when a read of the peer
\* chain has failed after the leaf was stored, a later access to certificate
\* or intermediates reads the chain again or raises; an access that returns
\* gives the leaf, or the complete list of intermediates, never a shorter
\* list.
C31_AccessorAllOrNothing ==
    (AtRest /\ ret.kind = "return")
        => /\ ret.op = "intermediates" => ret.data = Tail(hs.chain)
           /\ ret.op = "certificate" => ret.data = <<Head(hs.chain)>>

====
